---- MODULE Spec2Model ----
(***************************************************************************)
(* url-shortener, over the one table `url` of its SQLite database.         *)
(*                                                                         *)
(* Spec     the service the README documents: POST /url behind Basic-Auth  *)
(*          and GET /{alias}, served by concurrent request workers.        *)
(* SpecMain the process of cmd/url-shortener/main.go: logger setup,        *)
(*          storage setup and the two SaveURL calls, on the database file  *)
(*          an earlier use of the service has left at cfg.StoragePath.     *)
(*                                                                         *)
(* Every store call is one atomic transaction on the table.                *)
(***************************************************************************)
EXTENDS Integers, Sequences, FiniteSets, TLC

(* ------------------------------ bounds -------------------------------- *)

\* Number of request workers serving at the same time.
NumWorkers == 2

Workers == 1..NumWorkers

(* ------------------------- program constants -------------------------- *)

\* "Automatically generate 6-character random aliases when not specified"
AliasLength == 6

\* http_server.user / http_server.password of the configuration
User == "admin"
Password == "123456"

\* The environments main knows.
envLocal == "local"
envDev == "dev"
envProd == "prod"

(* ------------------------------ inputs -------------------------------- *)

\* A URL is the sequence of its lexical parts: scheme, "://", host.  The
\* empty sequence is the empty string; a one-part sequence is a bare word.
GoogleURL == <<"https", "://", "google.com">>
ExampleURL == <<"https", "://", "example.com">>
NotAURL == <<"not-a-url">>
EmptyURL == <<>>

URLs == {GoogleURL, ExampleURL, NotAURL, EmptyURL}

\* Aliases a caller may put in the request body; "" is an absent alias.
RequestAliases == {"", "google"}

\* Alphanumeric strings the random source can produce in this model.
\* "google" is one of them, so a generated alias can collide with a stored one.
RandomStrings == {"aB3xY9", "google", "x7"}

\* random.NewRandomString(size): any string of `size` alphanumeric characters.
NewRandomString(size) == {s \in RandomStrings : Len(s) = size}

\* What the Alias Generator can return.
GeneratedAliases == NewRandomString(AliasLength)

Aliases == (RequestAliases \ {""}) \cup GeneratedAliases

\* Basic-Auth credentials of a request; NoCredentials is an absent header.
NoCredentials == <<>>
Credentials == {<<User, Password>>, <<User, "wrong">>, NoCredentials}

PostRequests == [cred : Credentials, url : URLs, alias : RequestAliases]

\* Values of cfg.Env: the three known ones and one main does not know.
Envs == {envLocal, envDev, envProd, "staging"}

(* ------------------------------- state -------------------------------- *)

VARIABLES
    store,      \* table url: sequence of rows [id, alias, url], in insertion order
    env,        \* cfg.Env
    log,        \* main's local variable log: what setupLogger returned
    mainPc,     \* position of main(): "setupLogger", "NewStorage", "SaveURL1", "SaveURL2",
                \* "returned", "exited" (os.Exit(1)), "panicked"
    id,         \* main's local variable id (0 before the first assignment)
    err,        \* main's local variable err ("" is nil)
    pc,         \* pc[w]: "idle", "save" (POST /url past the middleware, in the handler)
    req,        \* req[w]: the body of the POST /url worker w is serving
    response,   \* the response written last: [status, alias, location, calls]
    saved,      \* history: the <<alias, url>> pairs whose insert returned success, in order
    raced       \* history: the last Save-URL handler ran while another worker held
                \* a request for the same alias in its handler

vars == <<store, env, log, mainPc, id, err, pc, req, response, saved, raced>>

mainVars == <<env, log, mainPc, id, err>>
serviceVars == <<pc, req, response, raced>>

NoRequest == [url |-> EmptyURL, alias |-> ""]
NoResponse == [status |-> 0, alias |-> "", location |-> EmptyURL, calls |-> 0]

(* ----------------------------- URL Store ------------------------------ *)

Row(i, alias, url) == [id |-> i, alias |-> alias, url |-> url]

AliasTaken(rows, alias) == \E i \in DOMAIN rows : rows[i].alias = alias

\* Mutant: the alias column without its UNIQUE constraint.
UniqueViolationDropped(rows, alias) == FALSE

\* alias TEXT NOT NULL UNIQUE: the table refuses a second row with an alias.
UniqueViolation(rows, alias) == AliasTaken(rows, alias)

\* id INTEGER PRIMARY KEY: one more than the largest id in the table.
NextRowId(rows) ==
    IF rows = <<>> THEN 1
    ELSE 1 + CHOOSE m \in {rows[i].id : i \in DOMAIN rows} :
                 \A i \in DOMAIN rows : rows[i].id <= m

\* Mutant: INSERT OR REPLACE, an insert on a taken alias overwrites its URL.
SaveURLReplace(rows, urlToSave, alias) ==
    {[err |-> "StorageError", id |-> 0, rows |-> rows]} \cup
    IF AliasTaken(rows, alias)
    THEN {[err |-> "", id |-> rows[CHOOSE i \in DOMAIN rows : rows[i].alias = alias].id,
           rows |-> [i \in DOMAIN rows |->
                       IF rows[i].alias = alias
                       THEN Row(rows[i].id, alias, urlToSave)
                       ELSE rows[i]]]}
    ELSE {[err |-> "", id |-> Len(rows) + 1,
           rows |-> Append(rows, Row(Len(rows) + 1, alias, urlToSave))]}

\* SaveURL(urlToSave, alias) -> (id, err): the possible outcomes of one
\* insert transaction on table `rows`.  A persistence failure can strike any
\* call and leaves the table as it was.
SaveURL(rows, urlToSave, alias) ==
    {[err |-> "StorageError", id |-> 0, rows |-> rows]} \cup
    IF UniqueViolation(rows, alias)
    THEN {[err |-> "ConflictError", id |-> 0, rows |-> rows]}
    ELSE {[err |-> "", id |-> NextRowId(rows),
           rows |-> Append(rows, Row(NextRowId(rows), alias, urlToSave))]}

\* Mutant: the lookup without its WHERE clause returns the first row's URL.
GetURLFirstRow(rows, alias) ==
    {[err |-> "StorageError", url |-> EmptyURL]} \cup
    IF rows /= <<>>
    THEN {[err |-> "", url |-> rows[1].url]}
    ELSE {[err |-> "NotFoundError", url |-> EmptyURL]}

\* GetURL(alias) -> (url, err): the possible outcomes of one lookup.
GetURL(rows, alias) ==
    {[err |-> "StorageError", url |-> EmptyURL]} \cup
    IF AliasTaken(rows, alias)
    THEN {[err |-> "", url |-> rows[CHOOSE i \in DOMAIN rows : rows[i].alias = alias].url]}
    ELSE {[err |-> "NotFoundError", url |-> EmptyURL]}

\* The history after an insert with outcome o.
Remember(o, alias, url) == IF o.err = "" THEN Append(saved, <<alias, url>>) ELSE saved

(* ------------------------- Save-URL: POST /url ------------------------ *)

\* Mutant: the middleware compares the user name and forgets the password.
AuthorizedUserOnly(cred) == cred /= NoCredentials /\ cred[1] = User

\* Basic-Auth check of the middleware in front of POST /url.
Authorized(cred) == cred /= NoCredentials /\ cred[1] = User /\ cred[2] = Password

\* validate "required": the field is present and not empty.
Required(url) == url /= EmptyURL

\* Mutant: the URL field validated as "required" only.
IsURLUnchecked(url) == TRUE

\* validate "url": scheme, separator and host are all there.
IsURL(url) == Len(url) = 3 /\ url[1] /= "" /\ url[2] = "://" /\ url[3] /= ""

ValidRequest(r) == Required(r.url) /\ IsURL(r.url)

\* HTTP status of a store outcome seen by the Save-URL handler.
SaveStatus(e) ==
    CASE e = "" -> 200
      [] e = "ConflictError" -> 409
      [] OTHER -> 500

\* Mutant: the Redirect handler does not tell NotFoundError from success.
RedirectStatusNoNotFound(e) ==
    CASE e \in {"", "NotFoundError"} -> 302
      [] OTHER -> 500

\* HTTP status of a store outcome seen by the Redirect handler.
RedirectStatus(e) ==
    CASE e = "" -> 302
      [] e = "NotFoundError" -> 404
      [] OTHER -> 500

\* The alias the handler inserts: the caller's, or a generated one.
AliasChoices(r) == IF r.alias = "" THEN GeneratedAliases ELSE {r.alias}

\* Mutant: the success payload echoes the alias field of the request.
ResponseAliasOfRequest(r, alias) == r.alias

\* The alias the success payload reports for request r stored under `alias`.
ResponseAlias(r, alias) == alias

\* Another worker holds a Save-URL request for the alias of w's request.
Racing(w) ==
    \E v \in Workers \ {w} :
        pc[v] = "save" /\ req[v].alias = req[w].alias /\ req[w].alias /= ""

Respond(status, alias, location, calls) ==
    response' = [status |-> status, alias |-> alias, location |-> location, calls |-> calls]

\* POST /url with request r reaches worker w; the middleware answers 401
\* itself or passes the request on to the handler.
BasicAuth(w, r) ==
    /\ pc[w] = "idle"
    /\ IF Authorized(r.cred)
       THEN /\ pc' = [pc EXCEPT ![w] = "save"]
            /\ req' = [req EXCEPT ![w] = [url |-> r.url, alias |-> r.alias]]
            /\ UNCHANGED response
       ELSE /\ Respond(401, "", EmptyURL, 0)
            /\ UNCHANGED <<pc, req>>
    /\ UNCHANGED <<store, saved, raced, mainVars>>

\* The Save-URL handler of worker w: validate, pick the alias, insert, answer.
SaveNew(w) ==
    /\ pc[w] = "save"
    /\ pc' = [pc EXCEPT ![w] = "idle"]
    /\ req' = [req EXCEPT ![w] = NoRequest]
    /\ raced' = Racing(w)
    /\ IF ~ValidRequest(req[w])
       THEN /\ Respond(400, "", EmptyURL, 0)
            /\ UNCHANGED <<store, saved>>
       ELSE \E alias \in AliasChoices(req[w]) :
              \E o \in SaveURL(store, req[w].url, alias) :
                /\ store' = o.rows
                /\ saved' = Remember(o, alias, req[w].url)
                /\ Respond(SaveStatus(o.err),
                           IF o.err = "" THEN ResponseAlias(req[w], alias) ELSE "",
                           EmptyURL, 1)
    /\ UNCHANGED mainVars

(* ------------------------ Redirect: GET /{alias} ---------------------- *)

\* GET /{alias} (no middleware on this route): the Redirect handler looks
\* the alias up and answers.  The handler makes one store call and keeps
\* nothing between steps, so any worker can run it at any time.
RedirectNew(alias) ==
    /\ \E o \in GetURL(store, alias) :
         Respond(RedirectStatus(o.err), alias, o.url, 1)
    /\ UNCHANGED <<store, saved, pc, req, raced, mainVars>>

(* ------------------------------- main() ------------------------------- *)

NilLogger == [handler |-> "nil", level |-> "nil"]

\* setupLogger(env): the logger of the environment; nil for any other value.
setupLogger(e) ==
    CASE e = envLocal -> [handler |-> "text", level |-> "debug"]
      [] e = envDev -> [handler |-> "json", level |-> "debug"]
      [] e = envProd -> [handler |-> "json", level |-> "info"]
      [] OTHER -> NilLogger

\* log := setupLogger(cfg.Env); log.Info(...): a call on the nil logger panics.
MainSetupLogger ==
    /\ mainPc = "setupLogger"
    /\ log' = setupLogger(env)
    /\ mainPc' = IF setupLogger(env) = NilLogger THEN "panicked" ELSE "NewStorage"
    /\ UNCHANGED <<store, saved, env, id, err, serviceVars>>

\* storage, err := sqlite.NewStorage(cfg.StoragePath); os.Exit(1) on error.
MainNewStorage ==
    /\ mainPc = "NewStorage"
    /\ \E e \in {"", "NewStorageError"} :
         /\ err' = e
         /\ mainPc' = IF e /= "" THEN "exited" ELSE "SaveURL1"
    /\ UNCHANGED <<store, saved, env, log, id, serviceVars>>

\* Where main goes after a SaveURL call: os.Exit(1) on any error.
AfterSaveURL(e, next) == IF e /= "" THEN "exited" ELSE next

\* id, err := storage.SaveURL("https://google.com", "google")
MainSaveURL1 ==
    /\ mainPc = "SaveURL1"
    /\ \E o \in SaveURL(store, GoogleURL, "google") :
         /\ store' = o.rows
         /\ saved' = Remember(o, "google", GoogleURL)
         /\ id' = o.id
         /\ err' = o.err
         /\ mainPc' = AfterSaveURL(o.err, "SaveURL2")
    /\ UNCHANGED <<env, log, serviceVars>>

\* id, err = storage.SaveURL("https://google.com", "google"), the second time
MainSaveURL2 ==
    /\ mainPc = "SaveURL2"
    /\ \E o \in SaveURL(store, GoogleURL, "google") :
         /\ store' = o.rows
         /\ saved' = Remember(o, "google", GoogleURL)
         /\ id' = o.id
         /\ err' = o.err
         /\ mainPc' = AfterSaveURL(o.err, "returned")
    /\ UNCHANGED <<env, log, serviceVars>>

(* --------------------------- specifications --------------------------- *)

\* The service on a new database.
Init ==
    /\ store = <<>>
    /\ saved = <<>>
    /\ env = envLocal
    /\ log = NilLogger
    /\ mainPc = "setupLogger"
    /\ id = 0
    /\ err = ""
    /\ pc = [w \in Workers |-> "idle"]
    /\ req = [w \in Workers |-> NoRequest]
    /\ response = NoResponse
    /\ raced = FALSE

Next ==
    \/ \E w \in Workers : \E r \in PostRequests : BasicAuth(w, r)
    \/ \E w \in Workers : SaveNew(w)
    \/ \E alias \in Aliases : RedirectNew(alias)

Spec == Init /\ [][Next]_vars

\* The tables the service can have left in the database file: rows of
\* well-formed URLs under distinct aliases, numbered in insertion order.
PersistedTables ==
    {t \in UNION {[1..n -> [id : 1..Cardinality(Aliases), alias : Aliases,
                            url : {u \in URLs : ValidRequest([url |-> u])}]] :
                  n \in 0..Cardinality(Aliases)} :
        /\ \A i \in DOMAIN t : t[i].id = i
        /\ \A i, j \in DOMAIN t : i /= j => t[i].alias /= t[j].alias}

\* main() starts in any environment, on any such database file.
InitMain ==
    /\ store \in PersistedTables
    /\ saved = [i \in DOMAIN store |-> <<store[i].alias, store[i].url>>]
    /\ env \in Envs
    /\ log = NilLogger
    /\ mainPc = "setupLogger"
    /\ id = 0
    /\ err = ""
    /\ pc = [w \in Workers |-> "idle"]
    /\ req = [w \in Workers |-> NoRequest]
    /\ response = NoResponse
    /\ raced = FALSE

NextMain ==
    \/ MainSetupLogger
    \/ MainNewStorage
    \/ MainSaveURL1
    \/ MainSaveURL2

SpecMain == InitMain /\ [][NextMain]_vars

(* ----------------------- vocabulary of the claims --------------------- *)

\* Table `rows` holds a mapping for alias a / maps alias a to URL u.
Holds(rows, a) == \E i \in DOMAIN rows : rows[i].alias = a
Maps(rows, a, u) == \E i \in DOMAIN rows : rows[i].alias = a /\ rows[i].url = u

\* An insert of <<a, u>> has returned success at some time.
EverSaved(a) == \E i \in DOMAIN saved : saved[i][1] = a
SavedWith(a, u) == \E i \in DOMAIN saved : saved[i] = <<a, u>>

\* Empty or syntactically invalid URL / a URL of the right syntax.
Malformed(url) == url \in {EmptyURL, NotAURL}
WellFormed(url) == url \in {GoogleURL, ExampleURL}

\* The step in which worker w's Save-URL handler runs.
SaveStep(w) == pc[w] = "save" /\ pc'[w] = "idle"

\* The table after <<a, u>> has been inserted as one new row.
WithRow(rows, a, u) ==
    Len(rows') = Len(rows) + 1
    /\ SubSeq(rows', 1, Len(rows)) = rows
    /\ rows'[Len(rows')].alias = a
    /\ rows'[Len(rows')].url = u

(* -------------------------------- C1 ---------------------------------- *)

\* C1 as stated: an insert of alias A on a store that holds no mapping for A
\* succeeds, and an insert of A on a store that holds one gets the conflict
\* signal (409 from Save-URL) and leaves the store as it was.
C1_InsertTwiceAsStated ==
    [][\A w \in Workers :
         (SaveStep(w) /\ WellFormed(req[w].url) /\ req[w].alias /= "") =>
             IF Holds(store, req[w].alias)
             THEN response'.status = 409 /\ store' = store
             ELSE response'.status = 200 /\ WithRow(store, req[w].alias, req[w].url)]_vars

\* C1 amended: an insert of alias A on a store that holds no mapping for A
\* either succeeds and adds exactly the row <<A, U1>>, or fails with a
\* storage error (500) and adds nothing; an insert of A on a store that holds
\* a mapping for A never succeeds (409 conflict, or 500) and leaves every row
\* as it was.
C1_InsertTwice ==
    [][\A w \in Workers :
         (SaveStep(w) /\ WellFormed(req[w].url) /\ req[w].alias /= "") =>
             IF Holds(store, req[w].alias)
             THEN response'.status \in {409, 500} /\ store' = store
             ELSE \/ response'.status = 200
                     /\ WithRow(store, req[w].alias, req[w].url)
                  \/ response'.status = 500 /\ store' = store]_vars

\* A conflict was answered while the alias keeps its first URL.
C1_Witness ==
    /\ response.status = 409
    /\ store = <<Row(1, "google", ExampleURL)>>
    /\ saved = <<<<"google", ExampleURL>>>>

(* -------------------------------- C2 ---------------------------------- *)

\* C2 as stated: GET /A for an alias inserted with URL U answers 302 with
\* Location exactly U, whatever was saved or looked up in between.
C2_RedirectAsStated ==
    [][\A a \in Aliases : \A u \in URLs :
         (RedirectNew(a) /\ SavedWith(a, u)) =>
             response'.status = 302 /\ response'.location = u]_vars

\* C2 amended: GET /A for an alias inserted with URL U answers 302 with
\* Location exactly U, or 500 when the lookup fails with a storage error; it
\* never answers 404 and never redirects anywhere else.
C2_Redirect ==
    [][\A a \in Aliases : \A u \in URLs :
         (RedirectNew(a) /\ SavedWith(a, u)) =>
             /\ response'.status \in {302, 500}
             /\ response'.status = 302 => response'.location = u]_vars

\* A redirect to the stored URL was answered after a later save.
C2_Witness ==
    /\ response.status = 302
    /\ response.alias = "google"
    /\ response.location = ExampleURL
    /\ Len(saved) = 2

(* -------------------------------- C3 ---------------------------------- *)

\* C3: POST /url whose credentials are absent or do not match the configured
\* user and password is answered 401 by the middleware, with no store call,
\* whatever the payload; the request never reaches the handler and the table
\* is the same before and after.
C3_Unauthorized ==
    [][\A w \in Workers :
         (\E r \in PostRequests : r.cred /= <<User, Password>> /\ BasicAuth(w, r)) =>
             /\ response'.status = 401
             /\ response'.calls = 0
             /\ pc'[w] = "idle"
             /\ store' = store
             /\ saved' = saved]_vars

\* 401 was answered on a table that holds a mapping.
C3_Witness ==
    /\ response.status = 401
    /\ response.calls = 0
    /\ Len(store) = 1

(* -------------------------------- C4 ---------------------------------- *)

\* C4 as stated: every POST /url with an empty or invalid URL is answered 400
\* and calls the store not at all.
C4_InvalidURLAsStated ==
    [][\A w \in Workers :
         /\ \A r \in PostRequests :
              (BasicAuth(w, r) /\ Malformed(r.url) /\ pc'[w] = "idle") =>
                  response'.status = 400 /\ response'.calls = 0 /\ store' = store
         /\ (SaveStep(w) /\ Malformed(req[w].url)) =>
                  response'.status = 400 /\ response'.calls = 0 /\ store' = store]_vars

\* C4 amended: POST /url with valid credentials and an empty or invalid URL
\* is answered 400 by the handler, which does not call the store: no mapping
\* (under the caller's alias or a generated one) is inserted.  (Without
\* valid credentials the answer is the middleware's 401, see C3.)
C4_InvalidURL ==
    [][\A w \in Workers :
         (SaveStep(w) /\ Malformed(req[w].url)) =>
             /\ response'.status = 400
             /\ response'.calls = 0
             /\ store' = store /\ saved' = saved]_vars

\* 400 was answered without a store call.
C4_Witness ==
    /\ response.status = 400
    /\ response.calls = 0
    /\ store = <<>>

(* -------------------------------- C5 ---------------------------------- *)

\* C5 as stated: GET /A for an alias no successful insert has used answers 404.
C5_NotFoundAsStated ==
    [][\A a \in Aliases :
         (RedirectNew(a) /\ ~EverSaved(a)) => response'.status = 404]_vars

\* C5 amended: GET /A for an alias no successful insert has used answers 404,
\* or 500 when the lookup fails with a storage error; it never redirects.
C5_NotFound ==
    [][\A a \in Aliases :
         (RedirectNew(a) /\ ~EverSaved(a)) =>
             /\ response'.status \in {404, 500}
             /\ response'.location = EmptyURL]_vars

\* 404 was answered for an alias never inserted, after another was saved.
C5_Witness ==
    /\ response.status = 404
    /\ response.alias = "aB3xY9"
    /\ saved = <<<<"google", GoogleURL>>>>
(* -------------------------------- C6 ---------------------------------- *)

\* C6: a Save-URL that answers 200 reports the alias it stored: the caller's
\* alias when the request has one, otherwise a generated alias of 6
\* characters; the row it added maps that alias to the URL of the request.
\* A Save-URL that adds a row answers 200.
C6_SuccessPayload ==
    [][\A w \in Workers :
         SaveStep(w) =>
             /\ response'.status = 200 =>
                  /\ req[w].alias /= "" => response'.alias = req[w].alias
                  /\ req[w].alias = "" => Len(response'.alias) = 6
                  /\ WithRow(store, response'.alias, req[w].url)
             /\ store' /= store => response'.status = 200]_vars

\* 200 was answered with a generated alias, which the table maps to the URL.
C6_Witness ==
    /\ response.status = 200
    /\ response.alias = "aB3xY9"
    /\ Maps(store, "aB3xY9", ExampleURL)

(* -------------------------------- C7 ---------------------------------- *)

\* C7: in every state no two rows of the table have the same alias and no
\* two rows have the same id.
C7_UniqueAliasAndId ==
    \A i, j \in DOMAIN store :
        i /= j => store[i].alias /= store[j].alias /\ store[i].id /= store[j].id

\* Two rows are stored and an insert has just been refused.
C7_Witness ==
    /\ Len(store) = 2
    /\ response.status = 409

(* -------------------------------- C8 ---------------------------------- *)

\* C8: no step changes or removes a row: every row of the table is in the
\* table after the step, with the same id, alias and URL, and its alias has
\* no other URL.
C8_MappingsImmutable ==
    [][\A i \in DOMAIN store :
         /\ i \in DOMAIN store' /\ store'[i] = store[i]
         /\ \A u \in URLs : Maps(store', store[i].alias, u) => u = store[i].url]_vars

\* Every alias is stored, and lookups and refused saves have followed.
C8_Witness ==
    /\ Len(store) = 2
    /\ Len(saved) = 2
    /\ response.status = 302

(* -------------------------------- C9 ---------------------------------- *)

\* A Save-URL handler step of w that calls Insert while another worker holds
\* a request that will call Insert with the same caller-supplied alias.
RacingSave(w) ==
    /\ SaveStep(w)
    /\ WellFormed(req[w].url)
    /\ req[w].alias /= ""
    /\ \E v \in Workers \ {w} :
         pc[v] = "save" /\ req[v].alias = req[w].alias /\ WellFormed(req[v].url)

\* C9 as stated: of the concurrent Save-URL requests for one alias, the one
\* that finds the alias free succeeds and every other one gets the conflict
\* signal.
C9_ConcurrentAsStated ==
    [][\A w \in Workers :
         RacingSave(w) =>
             IF Holds(store, req[w].alias)
             THEN response'.status = 409 /\ store' = store
             ELSE response'.status = 200 /\ WithRow(store, req[w].alias, req[w].url)]_vars

\* C9 amended: of the concurrent Save-URL requests for one alias, under every
\* interleaving at most one insert succeeds (exactly one unless a storage
\* error strikes); every other one gets the conflict signal or a storage
\* error and changes nothing; the stored URL is the one of the request that
\* succeeded, and the table only ever holds whole rows of successful inserts.
C9_Concurrent ==
    /\ [](\A a \in Aliases :
            /\ Cardinality({i \in DOMAIN saved : saved[i][1] = a}) <= 1
            /\ \A u \in URLs : Maps(store, a, u) <=> SavedWith(a, u))
    /\ [](\A i \in DOMAIN store : WellFormed(store[i].url) /\ store[i].alias \in Aliases)
    /\ [][\A w \in Workers :
            RacingSave(w) =>
                IF Holds(store, req[w].alias)
                THEN response'.status \in {409, 500} /\ store' = store
                ELSE \/ response'.status = 200
                        /\ WithRow(store, req[w].alias, req[w].url)
                     \/ response'.status = 500 /\ store' = store]_vars

\* The first of two racing requests for alias "google" has succeeded; the
\* other, with another URL, is still in its handler.
C9_Witness ==
    /\ raced
    /\ response.status = 200
    /\ response.alias = "google"
    /\ store = <<Row(1, "google", GoogleURL)>>
    /\ \E v \in Workers :
         pc[v] = "save" /\ req[v].alias = "google" /\ req[v].url = ExampleURL

(* -------------------------------- C10 --------------------------------- *)

\* C10: an error returned by the store's insert (ConflictError or
\* StorageError) never terminates the process, the two SaveURL calls of
\* main's startup sequence included.
C10_NoInsertErrorIsFatal ==
    [][(mainPc \in {"SaveURL1", "SaveURL2"} /\ err' \in {"ConflictError", "StorageError"})
           => (mainPc' /= "exited")]_vars

====
